---- MODULE Spec2Model ----
(***************************************************************************)
(* cps-deps: conversion of pkg-config (.pc) documents into CPS packages.   *)
(*                                                                         *)
(* Text is modelled character by character: a string is a sequence of      *)
(* one-character strings, and a document is the sequence of its lines, as  *)
(* `data.lines()` yields them.  Every pattern the code applies to a        *)
(* document (the property patterns, the variable pattern, the `${name}`    *)
(* tokens it replaces) contains no line break and matches none, so a       *)
(* match never spans two lines and the sequence of lines carries exactly   *)
(* what the joined text carries.                                           *)
(***************************************************************************)
EXTENDS Integers, Sequences, FiniteSets, TLC

VARIABLES
    pc_files,        \* the enumerated .pc files: a sequence of [name, data]
    exists,          \* the filesystem snapshot: the library paths that exist
    gcc,             \* the output of `gcc -dumpmachine`: None when it cannot run
    MULTIARCH_PATH,  \* the OnceLock of lib_search: None until initialised
    next_file,       \* position of the batch loop in pc_files
    result,          \* "running", "Ok" or "Err": what the batch run returned
    outdir,          \* the files written: file name -> Package
    log,             \* the library errors printed: [file, error], in order
    converted,       \* the positions of the files a .cps was written for, in order
    arg,             \* the input of the function under study, when one is
    ret              \* its result: None before the call

vars == <<pc_files, exists, gcc, MULTIARCH_PATH, next_file, result, outdir, log,
         converted, arg, ret>>

\* Option<T>: None is the empty sequence and Some(x) the sequence of x alone
None == <<>>
Some(x) == <<x>>
Unwrap(o) == o[1]

(***************************************************************************)
(* Strings                                                                 *)
(***************************************************************************)
Lower == {"a","b","c","d","e","f","g","h","i","j","k","l","m",
          "n","o","p","q","r","s","t","u","v","w","x","y","z"}
Upper == {"A","B","C","D","E","F","G","H","I","J","K","L","M",
          "N","O","P","Q","R","S","T","U","V","W","X","Y","Z"}
Digit == {"0","1","2","3","4","5","6","7","8","9"}

\* char::is_whitespace, over the characters the texts here hold
Whitespace == {" ", "\t", "\n"}

StartsWithAt(s, i, p) ==
    /\ i >= 1
    /\ i + Len(p) - 1 <= Len(s)
    /\ \A k \in 1..Len(p) : s[i + k - 1] = p[k]

StartsWith(s, p) == StartsWithAt(s, 1, p)

EndsWith(s, p) == Len(p) <= Len(s) /\ StartsWithAt(s, Len(s) - Len(p) + 1, p)

Contains(s, p) == \E i \in 1..(Len(s) + 1) : StartsWithAt(s, i, p)

\* str::replace: every non-overlapping occurrence, left to right
RECURSIVE ReplaceFrom(_, _, _, _)
ReplaceFrom(s, i, from, to) ==
    IF i > Len(s) THEN <<>>
    ELSE IF StartsWithAt(s, i, from)
         THEN to \o ReplaceFrom(s, i + Len(from), from, to)
         ELSE <<s[i]>> \o ReplaceFrom(s, i + 1, from, to)

Replace(s, from, to) == IF Len(from) = 0 THEN s ELSE ReplaceFrom(s, 1, from, to)

\* number of leading characters of s, from position i on, that lie in class
RECURSIVE RunLen(_, _, _)
RunLen(s, i, class) ==
    IF i <= Len(s) /\ s[i] \in class THEN 1 + RunLen(s, i + 1, class) ELSE 0

RECURSIVE TrimEnd(_)
TrimEnd(s) ==
    IF Len(s) > 0 /\ s[Len(s)] \in Whitespace THEN TrimEnd(SubSeq(s, 1, Len(s) - 1)) ELSE s

\* str::trim
Trim(s) == TrimEnd(SubSeq(s, RunLen(s, 1, Whitespace) + 1, Len(s)))

\* str::split_whitespace
RECURSIVE SplitFrom(_, _)
SplitFrom(s, i) ==
    LET b == i + RunLen(s, i, Whitespace)
        n == IF b > Len(s) THEN 0
             ELSE CHOOSE k \in 1..(Len(s) - b + 1) :
                    /\ \A j \in b..(b + k - 1) : s[j] \notin Whitespace
                    /\ (b + k > Len(s) \/ s[b + k] \in Whitespace)
    IN  IF b > Len(s) THEN <<>>
        ELSE <<SubSeq(s, b, b + n - 1)>> \o SplitFrom(s, b + n)

split_whitespace(s) == SplitFrom(s, 1)

\* the smallest element of a non-empty set of integers
Min(S) == CHOOSE x \in S : \A y \in S : x <= y

\* every ordering of the elements of a finite set
RECURSIVE Orderings(_)
Orderings(S) ==
    IF S = {} THEN {<<>>}
    ELSE UNION {{<<x>> \o o : o \in Orderings(S \ {x})} : x \in S}

(***************************************************************************)
(* pkg_config.rs                                                           *)
(***************************************************************************)

\* strip_comments: the lines that do not begin with '#'
strip_comments(data) ==
    LET NotComment(line) == ~StartsWith(line, <<"#">>)
    IN  SelectSeq(data, NotComment)

\* the classes of the variable pattern
\*   ([a-zA-Z0-9\-_]+)[ ]*=[ ]*([:a-zA-Z0-9\-_/=\.+ ]*)?$
NameClass == Lower \cup Upper \cup Digit \cup {"-", "_"}
ValueClass == Lower \cup Upper \cup Digit \cup {":", "-", "_", "/", "=", ".", "+", " "}

\* The pattern matched with the name starting at position i of the line.  The
\* name is the whole run of name characters from i (the character after it
\* must be a space or '='), and the value has to reach the end of the line.
VarEq(line, i) ==
    LET j == i + RunLen(line, i, NameClass)
    IN  j + RunLen(line, j, {" "})

VarValueStart(line, i) ==
    LET e == VarEq(line, i)
    IN  e + 1 + RunLen(line, e + 1, {" "})

VarMatchAt(line, i) ==
    /\ RunLen(line, i, NameClass) >= 1
    /\ VarEq(line, i) <= Len(line)
    /\ line[VarEq(line, i)] = "="
    /\ \A k \in VarValueStart(line, i)..Len(line) : line[k] \in ValueClass

\* the leftmost match of the pattern in one line: <<name, value>>, or None
VarOf(line) ==
    LET starts == {i \in 1..Len(line) : VarMatchAt(line, i)}
        i == Min(starts)
    IN  IF starts = {} THEN None
        ELSE <<SubSeq(line, i, i + RunLen(line, i, NameClass) - 1),
               SubSeq(line, VarValueStart(line, i), Len(line))>>

\* parse_variables: the name -> value map of the assignment lines; collecting
\* into a HashMap keeps the last assignment of a name
parse_variables(data) ==
    LET defined == {k \in 1..Len(data) : VarOf(data[k]) # None}
        names == {VarOf(data[k])[1] : k \in defined}
        Last(n) == CHOOSE k \in defined :
                      /\ VarOf(data[k])[1] = n
                      /\ \A m \in defined : VarOf(data[m])[1] = n => m <= k
    IN  [n \in names |-> VarOf(data[Last(n)])[2]]

\* "${key}"
VarToken(key) == <<"$", "{">> \o key \o <<"}">>

\* the test for `${` made on the first line of the text only
ContainsVarToken_FirstLine(data) ==
    data # <<>> /\ Contains(data[1], <<"$", "{">>)

\* data.contains("${")
ContainsVarToken(data) == \E k \in 1..Len(data) : Contains(data[k], <<"$", "{">>)

\* the loop of one pass, `data = data.replace(&from, &value)`, for the keys in
\* the order the HashMap yields them
RECURSIVE ReplaceAll(_, _, _)
ReplaceAll(data, order, variables) ==
    IF order = <<>> THEN data
    ELSE ReplaceAll([k \in 1..Len(data) |->
                        Replace(data[k], VarToken(Head(order)), variables[Head(order)])],
                    Tail(order), variables)

\* A HashMap iterates in an unspecified order: the texts one pass can yield
ExpandPass(data, variables) ==
    {ReplaceAll(data, order, variables) : order \in Orderings(DOMAIN variables)}

\* the recursion limit of expand_variables (`index > 100`)
MaxRecursion == 100

\* the call at the limit giving the text back as it stands, not an error
MaxRecursionError_TextAsIs(data) == [ok |-> TRUE, data |-> data]

\* the error of expand_variables, raised by the call with `index > 100`
MaxRecursionError(data) == [ok |-> FALSE, err |-> "MaxRecursion", data |-> data]

\* the limit tested with `>=`: the call with index 100 raises the error
LimitHit_AtLimit(index) == index >= MaxRecursion

\* `if index > 100`: the call raises the error before any substitution
LimitHit(index) == index > MaxRecursion

\* expand_variables without its recursion: the text after the first pass
expand_variables_OnePass(data, index) ==
    {[ok |-> TRUE, data |-> d] : d \in ExpandPass(data, parse_variables(data))}

\* expand_variables: the set of results the call can return.  A pass that
\* leaves the text as it was replaced nothing; the call it recurses into sees
\* the same text and the same variables, and so does every later one up to
\* the call with index 101, which returns the error: that chain of identical
\* calls is not unfolded here.
RECURSIVE expand_variables(_, _)
expand_variables(data, index) ==
    LET variables == parse_variables(data)
    IN  IF index > MaxRecursion
        THEN {MaxRecursionError(data)}
        ELSE UNION {IF ~ContainsVarToken(d) THEN {[ok |-> TRUE, data |-> d]}
                    ELSE IF d = data THEN {MaxRecursionError(data)}
                    ELSE expand_variables(d, index + 1)
                    : d \in ExpandPass(data, variables)}

\* one character of a property name used as a pattern: '.' matches anything
PatternAt(line, i, name) ==
    /\ i + Len(name) - 1 <= Len(line)
    /\ \A k \in 1..Len(name) : name[k] = "." \/ line[i + k - 1] = name[k]

\* The pattern `{name}:[ ]+(.+)` matched at position i of the line: the name,
\* a colon, at least one space and at least one more character.
PropertyMatchAt(line, i, name) ==
    LET c == i + Len(name)
    IN  /\ PatternAt(line, i, name)
        /\ c + 2 <= Len(line)
        /\ line[c] = ":"
        /\ line[c + 1] = " "

\* what group 1 captures there: the spaces are taken greedily and the rest of
\* the line is captured; when only spaces follow the colon the last one is
PropertyCapture(line, i, name) ==
    LET c == i + Len(name)
        v == c + 1 + RunLen(line, c + 1, {" "})
    IN  IF v <= Len(line) THEN SubSeq(line, v, Len(line)) ELSE <<" ">>

\* capture_property: the first match in the document, trimmed; "" without one
capture_property(name, data) ==
    LET Matches(line) == {i \in 1..Len(line) : PropertyMatchAt(line, i, name)}
        lines == {k \in 1..Len(data) : Matches(data[k]) # {}}
        k == Min(lines)
    IN  IF lines = {} THEN <<>>
        ELSE Trim(PropertyCapture(data[k], Min(Matches(data[k])), name))

\* filter_flag without the slice: the tokens are kept with their flag
filter_flag_KeepsFlag(data, flag) ==
    LET Has(s) == StartsWith(s, flag)
    IN  SelectSeq(data, Has)

\* filter_flag: the tokens that start with the flag, without it
filter_flag(data, flag) ==
    LET Has(s) == StartsWith(s, flag)
        kept == SelectSeq(data, Has)
    IN  [k \in 1..Len(kept) |-> SubSeq(kept[k], Len(flag) + 1, Len(kept[k]))]

\* filter_excluding_flags: the tokens that start with none of the flags
filter_excluding_flags(data, flags) ==
    LET Free(s) == \A f \in flags : ~StartsWith(s, f)
    IN  SelectSeq(data, Free)

\* the classes of the dependency pattern
\*   ([^ ,]+)[ ]*(([<=>!]+)[ ]*([^ ,]+)?)?
Separator == {" ", ","}
OperatorClass == {"<", "=", ">", "!"}

RECURSIVE TokenLen(_, _)
TokenLen(s, i) ==
    IF i <= Len(s) /\ s[i] \notin Separator THEN 1 + TokenLen(s, i + 1) ELSE 0

\* Dependency::parse_list: the matches of the pattern, left to right.  Every
\* quantifier is greedy and every optional group is taken when it can match.
RECURSIVE ParseListFrom(_, _)
ParseListFrom(s, i) ==
    LET b == i + RunLen(s, i, Separator)
        o == b + TokenLen(s, b) + RunLen(s, b + TokenLen(s, b), {" "})
        on == RunLen(s, o, OperatorClass)
        v == o + on + RunLen(s, o + on, {" "})
        vn == TokenLen(s, v)
        name == SubSeq(s, b, b + TokenLen(s, b) - 1)
    IN  IF b > Len(s) THEN <<>>
        ELSE IF on = 0
        THEN <<[name |-> name, op |-> None, version |-> None]>> \o ParseListFrom(s, o)
        ELSE <<[name |-> name,
                op |-> Some(SubSeq(s, o, o + on - 1)),
                version |-> IF vn = 0 THEN None ELSE Some(SubSeq(s, v, v + vn - 1))]>>
             \o ParseListFrom(s, v + vn)

parse_list(data) == ParseListFrom(data, 1)

\* the property names PkgConfigFile::parse captures
P_Name == <<"N","a","m","e">>
P_Version == <<"V","e","r","s","i","o","n">>
P_Description == <<"D","e","s","c","r","i","p","t","i","o","n">>
P_Libs == <<"L","i","b","s">>
P_Cflags == <<"C","f","l","a","g","s">>
P_Requires == <<"R","e","q","u","i","r","e","s">>

\* the record PkgConfigFile::parse builds from the expanded text
PkgConfigFileOf(data) ==
    LET cflags == split_whitespace(capture_property(P_Cflags, data))
        libs == split_whitespace(capture_property(P_Libs, data))
    IN  [name |-> capture_property(P_Name, data),
         version |-> capture_property(P_Version, data),
         description |-> capture_property(P_Description, data),
         includes |-> filter_flag(cflags, <<"-", "I">>),
         definitions |-> filter_flag(cflags, <<"-", "D">>),
         compile_flags |-> filter_excluding_flags(cflags, {<<"-", "I">>, <<"-", "D">>}),
         link_locations |-> filter_flag(libs, <<"-", "L">>),
         link_libraries |-> filter_flag(libs, <<"-", "l">>),
         link_flags |-> filter_excluding_flags(libs, {<<"-", "L">>, <<"-", "l">>}),
         requires |-> parse_list(capture_property(P_Requires, data))]

\* PkgConfigFile::parse: the set of results the call can return; the only
\* error is the one expand_variables raises
parse(data) ==
    {IF r.ok THEN [ok |-> TRUE, value |-> PkgConfigFileOf(r.data)]
             ELSE [ok |-> FALSE, err |-> r.err]
     : r \in expand_variables(strip_comments(data), 0)}

(***************************************************************************)
(* cps.rs                                                                  *)
(***************************************************************************)

\* const CPS_VERSION
CPS_VERSION == "0.11.0"

\* ComponentFields::default(): every field absent
ComponentFields ==
    [location |-> None, requires |-> None, configurations |-> None,
     compile_flags |-> None, definitions |-> None, includes |-> None,
     link_flags |-> None]

\* a Component: its `type` tag and its fields
Component(type, fields) == [type |-> type] @@ fields

\* LanguageStringList::any_language_map
any_language_map(list) == [lang \in {"*"} |-> list]

\* ComponentFields::has_location
has_location(fields) ==
    \/ fields.location # None
    \/ /\ fields.configurations # None
       /\ \A c \in DOMAIN Unwrap(fields.configurations) :
              Unwrap(fields.configurations)[c].location # None

\* the component kinds whose arm of Package::validate asks for a location
LocationTypes == {"archive", "dylib", "module", "jar"}

\* Package::validate without the comparison of cps_version
validate_NoVersionCheck(package) ==
    LET missing == {n \in DOMAIN package.components :
                       /\ package.components[n].type \in LocationTypes
                       /\ ~has_location(package.components[n])}
    IN  IF missing = {} THEN {[ok |-> TRUE]}
        ELSE {[ok |-> FALSE, err |-> "MissingLocation", name |-> n] : n \in missing}

\* Package::validate: the set of results the call can return (the components
\* are visited in the HashMap's order and the first one at fault is reported)
validate(package) ==
    LET missing == {n \in DOMAIN package.components :
                       /\ package.components[n].type \in LocationTypes
                       /\ ~has_location(package.components[n])}
    IN  IF package.cps_version # CPS_VERSION
        THEN {[ok |-> FALSE, err |-> "UnsupportedVersion"]}
        ELSE IF missing = {} THEN {[ok |-> TRUE]}
        ELSE {[ok |-> FALSE, err |-> "MissingLocation", name |-> n] : n \in missing}

\* Package::from_str and Package::from_reader: serde_json refuses a document
\* that is no Package; one that is, is validated
from_str(document) ==
    IF ~document.wellformed THEN {[ok |-> FALSE, err |-> "Json"]}
    ELSE {IF r.ok THEN [ok |-> TRUE, value |-> document.package] ELSE r
          : r \in validate(document.package)}

(***************************************************************************)
(* lib_search.rs                                                           *)
(***************************************************************************)

\* PathBuf::join of a relative file name
Join(base, file) ==
    IF base = <<>> \/ base[Len(base)] = "/" THEN base \o file ELSE base \o <<"/">> \o file

\* the closure get_multiarch_lib_path_iter initialises MULTIARCH_PATH with:
\* no directory when the compiler cannot be run, else /usr/lib/<triple>
MultiarchInit(machine) ==
    IF machine = None THEN <<>>
    ELSE <<<<"/","u","s","r","/","l","i","b","/">> \o Trim(Unwrap(machine))>>

\* get_multiarch_lib_path_iter: the cell's value after the call
get_multiarch_lib_path_iter(cell, machine) ==
    IF cell = None THEN Some(MultiarchInit(machine)) ELSE cell

\* the candidates with the multiarch directory chained ahead of the search
\* directories
Candidates_MultiarchFirst(library, extension, search_paths, multiarch) ==
    LET bases == multiarch \o search_paths
    IN  [k \in 1..Len(bases) |->
            Join(bases[k], <<"l","i","b">> \o library \o <<".">> \o extension)]

\* the candidates of find_library: lib<library>.<extension> in every search
\* directory, then in the multiarch directory
Candidates(library, extension, search_paths, multiarch) ==
    LET bases == search_paths \o multiarch
    IN  [k \in 1..Len(bases) |->
            Join(bases[k], <<"l","i","b">> \o library \o <<".">> \o extension)]

\* find_library: the first candidate that exists
find_library(library, extension, search_paths, multiarch, fs) ==
    LET filepaths == Candidates(library, extension, search_paths, multiarch)
        found == {k \in 1..Len(filepaths) : filepaths[k] \in fs}
    IN  IF found = {}
        THEN [ok |-> FALSE, err |-> "NotFound", library |-> library, paths |-> filepaths]
        ELSE [ok |-> TRUE, value |-> filepaths[Min(found)]]

find_dylib(library, search_paths, multiarch, fs) ==
    find_library(library, <<"s","o">>, search_paths, multiarch, fs)

find_archive(library, search_paths, multiarch, fs) ==
    find_library(library, <<"a">>, search_paths, multiarch, fs)

\* the closure of FullLibraryPaths::find for one secondary library
FindSecondary(name, dylib_location, search_paths, multiarch, fs) ==
    LET dylib_path == find_dylib(name, search_paths, multiarch, fs)
        archive_path == find_archive(name, search_paths, multiarch, fs)
    IN  IF dylib_location # None /\ dylib_path.ok THEN dylib_path
        ELSE IF dylib_location # None /\ archive_path.ok THEN archive_path
        ELSE IF archive_path.ok THEN archive_path
        ELSE IF dylib_path.ok THEN dylib_path
        ELSE [ok |-> FALSE, err |-> "NotFound", library |-> name,
              paths |-> dylib_path.paths \o archive_path.paths]

\* a resolution that takes the primary library in either form: a location is
\* absent when its artifact is, and only a primary without any artifact fails
find_EitherArtifact(pkg_config, multiarch, fs) ==
    LET search_paths == pkg_config.link_locations
        libs == pkg_config.link_libraries
        dylib == find_dylib(libs[1], search_paths, multiarch, fs)
        archive == find_archive(libs[1], search_paths, multiarch, fs)
        dylib_location == IF dylib.ok THEN Some(dylib.value) ELSE None
        archive_location == IF archive.ok THEN Some(archive.value) ELSE None
        Second(k) == FindSecondary(libs[k], dylib_location, search_paths, multiarch, fs)
        failed == {k \in 2..Len(libs) : ~Second(k).ok}
        names == {libs[k] : k \in 2..Len(libs)}
        At(n) == CHOOSE k \in 2..Len(libs) : libs[k] = n
    IN  IF libs = <<>>
        THEN [ok |-> TRUE,
              value |-> [default_component_name |-> pkg_config.name,
                         dylib_location |-> None,
                         archive_location |-> None,
                         link_libraries |-> <<>>]]
        ELSE IF ~dylib.ok /\ ~archive.ok THEN dylib
        ELSE IF failed # {} THEN Second(Min(failed))
        ELSE [ok |-> TRUE,
              value |-> [default_component_name |-> libs[1],
                         dylib_location |-> dylib_location,
                         archive_location |-> archive_location,
                         link_libraries |-> [n \in names |-> Second(At(n)).value]]]

\* FullLibraryPaths::find
find(pkg_config, multiarch, fs) ==
    LET search_paths == pkg_config.link_locations
        libs == pkg_config.link_libraries
        dylib == find_dylib(libs[1], search_paths, multiarch, fs)
        archive == find_archive(libs[1], search_paths, multiarch, fs)
        Second(k) == FindSecondary(libs[k], Some(dylib.value), search_paths, multiarch, fs)
        failed == {k \in 2..Len(libs) : ~Second(k).ok}
        names == {libs[k] : k \in 2..Len(libs)}
        At(n) == CHOOSE k \in 2..Len(libs) : libs[k] = n
    IN  IF libs = <<>>
        THEN [ok |-> TRUE,
              value |-> [default_component_name |-> pkg_config.name,
                         dylib_location |-> None,
                         archive_location |-> None,
                         link_libraries |-> <<>>]]
        ELSE IF ~dylib.ok THEN dylib
        ELSE IF ~archive.ok THEN archive
        ELSE IF failed # {} THEN Second(Min(failed))
        ELSE [ok |-> TRUE,
              value |-> [default_component_name |-> libs[1],
                         dylib_location |-> Some(dylib.value),
                         archive_location |-> Some(archive.value),
                         link_libraries |-> [n \in names |-> Second(At(n)).value]]]

(***************************************************************************)
(* generate_from_pkg_config.rs                                             *)
(***************************************************************************)

\* the version every arm of the conversion writes into the package
EmittedCpsVersion == "0.10.0"

\* `d.name` of every entry of pkg_config.requires
RemoteRequires(pkg_config) ==
    [k \in 1..Len(pkg_config.requires) |-> pkg_config.requires[k].name]

\* local_requires chained with remote_requres; `order` is the order in which
\* the HashMap yields the names of the secondary libraries
MergedRequires(pkg_config, order) ==
    [k \in 1..Len(order) |-> <<":">> \o order[k]] \o RemoteRequires(pkg_config)

\* `(!list.is_empty()).then(...)`
LanguageList(list) == IF list = <<>> THEN None ELSE Some(any_language_map(list))

\* the default component built without the link flags of the record
DefaultFields_NoLinkFlags(pkg_config, location, requires) ==
    [ComponentFields EXCEPT
        !.location = location,
        !.requires = Some(requires),
        !.compile_flags = LanguageList(pkg_config.compile_flags),
        !.definitions = LanguageList(pkg_config.definitions),
        !.includes = LanguageList(pkg_config.includes)]

\* the fields of the default component
DefaultFields(pkg_config, location, requires) ==
    [ComponentFields EXCEPT
        !.location = location,
        !.requires = Some(requires),
        !.compile_flags = LanguageList(pkg_config.compile_flags),
        !.definitions = LanguageList(pkg_config.definitions),
        !.includes = LanguageList(pkg_config.includes),
        !.link_flags = IF pkg_config.link_flags = <<>> THEN None
                       ELSE Some(pkg_config.link_flags)]

\* the component inserted for one secondary library
SecondaryComponent(location) ==
    Component(IF EndsWith(location, <<"s","o">>) THEN "dylib" ELSE "archive",
              [ComponentFields EXCEPT !.location = Some(location)])

\* the components map: the default component is inserted first and every
\* secondary library is inserted after it, under its own name
Components(library, default) ==
    [n \in {library.default_component_name} \cup DOMAIN library.link_libraries |->
        IF n \in DOMAIN library.link_libraries
        THEN SecondaryComponent(library.link_libraries[n])
        ELSE default]

\* the package with its default component named after the package, whatever
\* the name the component was inserted under
PackageOf_NamedAfterPackage(pkg_config, library, default) ==
    [name |-> pkg_config.name,
     cps_version |-> EmittedCpsVersion,
     version |-> Some(pkg_config.version),
     description |-> Some(pkg_config.description),
     default_components |-> Some(<<pkg_config.name>>),
     components |-> Components(library, default),
     configurations |-> None,
     requires |-> None]

\* the cps::Package of one arm; the fields not named are Package::default()'s
PackageOf(pkg_config, library, default) ==
    [name |-> pkg_config.name,
     cps_version |-> EmittedCpsVersion,
     version |-> Some(pkg_config.version),
     description |-> Some(pkg_config.description),
     default_components |-> Some(<<library.default_component_name>>),
     components |-> Components(library, default),
     configurations |-> None,
     requires |-> None]

\* the `match (library.archive_location, library.dylib_location)`: the
\* packages the conversion can build, one per order of the HashMap's keys
Convert(pkg_config, library) ==
    IF library.archive_location = None /\ library.dylib_location = None
    THEN {PackageOf(pkg_config, library,
             Component("interface",
                 DefaultFields(pkg_config, None, RemoteRequires(pkg_config))))}
    ELSE IF library.dylib_location = None
    THEN {PackageOf(pkg_config, library,
             Component("archive",
                 DefaultFields(pkg_config, library.archive_location,
                               MergedRequires(pkg_config, order))))
          : order \in Orderings(DOMAIN library.link_libraries)}
    ELSE {PackageOf(pkg_config, library,
             Component("dylib",
                 DefaultFields(pkg_config, library.dylib_location,
                               MergedRequires(pkg_config, order))))
          : order \in Orderings(DOMAIN library.link_libraries)}

\* pc_filename.replace(".pc", ".cps")
cps_filename(pc_filename) ==
    Replace(pc_filename, <<".","p","c">>, <<".","c","p","s">>)

\* std::fs::write into outdir: the file is created or overwritten
Write(dir, file, content) ==
    [f \in DOMAIN dir \cup {file} |-> IF f = file THEN content ELSE dir[f]]

(***************************************************************************)
(* The batch run of generate_from_pkg_config over a filesystem snapshot    *)
(***************************************************************************)

\* how many .pc files the enumeration holds at most
MaxFiles == 2

\* a package without any -l library
HdrPc ==
    <<<<"#"," ","h","e","a","d","e","r","s"," ","o","n","l","y">>,
      <<"N","a","m","e",":"," ","h","d","r">>,
      <<"D","e","s","c","r","i","p","t","i","o","n",":"," ","d">>,
      <<"V","e","r","s","i","o","n",":"," ","1">>,
      <<"R","e","q","u","i","r","e","s",":"," ","z">>,
      <<"C","f","l","a","g","s",":"," ","-","I","/","i"," ","-","D","H">>>>

\* a package with one library, its directory given through variables
FooPc ==
    <<<<"p","=","/","l">>,
      <<"d","=","$","{","p","}">>,
      <<"N","a","m","e",":"," ","f","o","o">>,
      <<"D","e","s","c","r","i","p","t","i","o","n",":"," ","d">>,
      <<"V","e","r","s","i","o","n",":"," ","2">>,
      <<"R","e","q","u","i","r","e","s",":"," ","z"," ",">","="," ","1">>,
      <<"L","i","b","s",":"," ","-","L","$","{","d","}"," ","-","l","f","o","o">>>>

\* a package with a primary and a secondary library
TwoPc ==
    <<<<"N","a","m","e",":"," ","t","w","o">>,
      <<"D","e","s","c","r","i","p","t","i","o","n",":"," ","d">>,
      <<"V","e","r","s","i","o","n",":"," ","3">>,
      <<"L","i","b","s",":"," ","-","L","/","l"," ","-","l","f","o","o"," ","-","l","b","a","r"," ","-","p","t","h","r","e","a","d">>>>

\* a package whose variables are defined in a cycle
CycPc ==
    <<<<"a","=","$","{","b","}">>,
      <<"b","=","$","{","a","}">>,
      <<"N","a","m","e",":"," ","c","y","c">>,
      <<"D","e","s","c","r","i","p","t","i","o","n",":"," ","d">>,
      <<"V","e","r","s","i","o","n",":"," ","4">>,
      <<"L","i","b","s",":"," ","-","L","$","{","a","}"," ","-","l","f","o","o">>>>

\* the .pc files find_pc_files can enumerate, and whether each can be read
PcFilePool ==
    {[dir |-> "/usr/lib", file_name |-> <<"h","d","r",".","p","c">>, readable |-> TRUE, data |-> HdrPc],
     [dir |-> "/usr/lib", file_name |-> <<"f","o","o",".","p","c">>, readable |-> TRUE, data |-> FooPc],
     [dir |-> "/usr/local/lib", file_name |-> <<"f","o","o",".","p","c">>, readable |-> TRUE, data |-> HdrPc],
     [dir |-> "/usr/share", file_name |-> <<"t","w","o",".","p","c","x",".","p","c">>, readable |-> TRUE, data |-> TwoPc],
     [dir |-> "/usr/share", file_name |-> <<"c","y","c",".","p","c">>, readable |-> TRUE, data |-> CycPc],
     [dir |-> "/usr/local/lib", file_name |-> <<"b","a","d",".","p","c">>, readable |-> FALSE, data |-> <<>>]}

\* the library artifacts the snapshot may hold
LibraryFiles ==
    {<<"/","l","/","l","i","b","f","o","o",".","s","o">>,
     <<"/","l","/","l","i","b","f","o","o",".","a">>,
     <<"/","l","/","l","i","b","b","a","r",".","s","o">>,
     <<"/","l","/","l","i","b","b","a","r",".","a">>,
     <<"/","u","s","r","/","l","i","b","/","a","r","m","/","l","i","b","f","o","o",".","a">>}

\* what `gcc -dumpmachine` prints, when gcc can be run
Machine == <<"a","r","m","\n">>

RECURSIVE SeqsUpTo(_, _)
SeqsUpTo(S, n) ==
    IF n = 0 THEN {<<>>}
    ELSE SeqsUpTo(S, n - 1) \cup
         {Append(q, x) : q \in {r \in SeqsUpTo(S, n - 1) : Len(r) = n - 1}, x \in S}

Idle == arg = None /\ ret = None

Init ==
    /\ pc_files \in SeqsUpTo(PcFilePool, MaxFiles)
    /\ exists \in SUBSET LibraryFiles
    /\ gcc \in {None, Some(Machine)}
    /\ MULTIARCH_PATH = None
    /\ next_file = 1
    /\ result = "running"
    /\ outdir = <<>>
    /\ log = <<>>
    /\ converted = <<>>
    /\ Idle

InLoop == result = "running" /\ next_file <= Len(pc_files)

\* the OnceLock after FullLibraryPaths::find: find_library, which reads it, is
\* called only for a record with a -l library
MultiarchAfter(pkg_config) ==
    IF pkg_config.link_libraries = <<>> THEN MULTIARCH_PATH
    ELSE get_multiarch_lib_path_iter(MULTIARCH_PATH, gcc)

\* the multiarch directories find_library chains to the search paths
MultiarchDirs == Unwrap(get_multiarch_lib_path_iter(MULTIARCH_PATH, gcc))

\* `std::fs::read_to_string(path)?` fails: the run returns the error
ReadFails ==
    /\ InLoop
    /\ ~pc_files[next_file].readable
    /\ result' = "Err"
    /\ UNCHANGED <<pc_files, exists, gcc, MULTIARCH_PATH, next_file, outdir, log,
                   converted, arg, ret>>

\* `PkgConfigFile::parse(&data)?` fails: the run returns the error
ParseFails ==
    /\ InLoop
    /\ pc_files[next_file].readable
    /\ \E parsed \in parse(pc_files[next_file].data) :
          /\ ~parsed.ok
          /\ result' = "Err"
    /\ UNCHANGED <<pc_files, exists, gcc, MULTIARCH_PATH, next_file, outdir, log,
                   converted, arg, ret>>

\* the error of FullLibraryPaths::find returned from the run, as `?` would
LibraryFails_Fatal ==
    /\ InLoop
    /\ pc_files[next_file].readable
    /\ \E parsed \in parse(pc_files[next_file].data) :
          /\ parsed.ok
          /\ ~find(parsed.value, MultiarchDirs, exists).ok
          /\ MULTIARCH_PATH' = MultiarchAfter(parsed.value)
    /\ result' = "Err"
    /\ UNCHANGED <<pc_files, exists, gcc, next_file, outdir, log, converted, arg, ret>>

\* FullLibraryPaths::find fails: the error is printed and the loop continues
LibraryFails ==
    /\ InLoop
    /\ pc_files[next_file].readable
    /\ \E parsed \in parse(pc_files[next_file].data) :
          /\ parsed.ok
          /\ LET library == find(parsed.value, MultiarchDirs, exists)
             IN  /\ ~library.ok
                 /\ log' = Append(log, [file |-> next_file, error |-> library])
                 /\ MULTIARCH_PATH' = MultiarchAfter(parsed.value)
    /\ next_file' = next_file + 1
    /\ UNCHANGED <<pc_files, exists, gcc, result, outdir, converted, arg, ret>>

\* the package is built and written to outdir under the .cps name
WriteCps ==
    /\ InLoop
    /\ pc_files[next_file].readable
    /\ \E parsed \in parse(pc_files[next_file].data) :
          /\ parsed.ok
          /\ LET library == find(parsed.value, MultiarchDirs, exists)
             IN  /\ library.ok
                 /\ \E cps \in Convert(parsed.value, library.value) :
                       outdir' = Write(outdir,
                                       cps_filename(pc_files[next_file].file_name), cps)
                 /\ MULTIARCH_PATH' = MultiarchAfter(parsed.value)
    /\ converted' = Append(converted, next_file)
    /\ next_file' = next_file + 1
    /\ UNCHANGED <<pc_files, exists, gcc, result, log, arg, ret>>

\* the loop is over: Ok(())
Return ==
    /\ result = "running"
    /\ next_file > Len(pc_files)
    /\ result' = "Ok"
    /\ UNCHANGED <<pc_files, exists, gcc, MULTIARCH_PATH, next_file, outdir, log,
                   converted, arg, ret>>

Next == ReadFails \/ ParseFails \/ LibraryFails \/ WriteCps \/ Return

Spec == Init /\ [][Next]_vars

(***************************************************************************)
(* Resolution and conversion of one parsed record: the body of the loop    *)
(* after PkgConfigFile::parse, applied to records drawn from bounded sets  *)
(***************************************************************************)

\* how many -l libraries a record holds at most
MaxLibs == 3

LibFoo == <<"f","o","o">>
LibBar == <<"b","a","r">>

\* the records resolution and conversion are applied to
PkgConfigRecords ==
    {[name |-> <<"p","k","g">>,
      version |-> <<"1",".","0">>,
      description |-> <<"d">>,
      includes |-> flags[1],
      definitions |-> <<>>,
      compile_flags |-> flags[2],
      link_locations |-> dirs,
      link_libraries |-> libs,
      link_flags |-> flags[2],
      requires |-> reqs]
     : flags \in {<<<<>>, <<>>>>, <<<<<<"/","i">>>>, <<<<"-","p","t","h","r","e","a","d">>>>>>},
       dirs \in {<<>>, <<<<"/","l">>>>},
       libs \in SeqsUpTo({LibFoo, LibBar}, MaxLibs),
       reqs \in {<<>>,
                 <<[name |-> <<"y">>, op |-> None, version |-> None],
                   [name |-> <<"z">>, op |-> Some(<<">", "=">>),
                    version |-> Some(<<"2">>)]>>}}

InitConvert ==
    /\ pc_files = <<>>
    /\ exists \in SUBSET LibraryFiles
    /\ gcc \in {None, Some(Machine)}
    /\ MULTIARCH_PATH = None
    /\ next_file = 1
    /\ result = "idle"
    /\ outdir = <<>>
    /\ log = <<>>
    /\ converted = <<>>
    /\ arg \in {Some(r) : r \in PkgConfigRecords}
    /\ ret = None

\* `let library = lib_search::FullLibraryPaths::find(&pkg_config)`
Resolve ==
    /\ result = "idle"
    /\ ret = None
    /\ ret' = Some([library |-> find(Unwrap(arg), MultiarchDirs, exists), cps |-> None])
    /\ MULTIARCH_PATH' = MultiarchAfter(Unwrap(arg))
    /\ UNCHANGED <<pc_files, exists, gcc, next_file, result, outdir, log, converted, arg>>

\* `let cps = match (library.archive_location, library.dylib_location)`
Emit ==
    /\ result = "idle"
    /\ ret # None
    /\ Unwrap(ret).library.ok
    /\ Unwrap(ret).cps = None
    /\ \E cps \in Convert(Unwrap(arg), Unwrap(ret).library.value) :
          ret' = Some([Unwrap(ret) EXCEPT !.cps = Some(cps)])
    /\ UNCHANGED <<pc_files, exists, gcc, MULTIARCH_PATH, next_file, result, outdir,
                   log, converted, arg>>

NextConvert == Resolve \/ Emit

SpecConvert == InitConvert /\ [][NextConvert]_vars

(***************************************************************************)
(* PkgConfigFile::parse applied to documents drawn from a bounded set      *)
(***************************************************************************)

\* how many lines a document given to parse holds at most
MaxLines == 3

\* the lines the documents are made of
PropertyLinePool ==
    {<<"N","a","m","e",":"," ","f","o","o">>,
     <<"N","a","m","e",":"," "," ","b","a","r"," ">>,
     <<"V","e","r","s","i","o","n",":"," ","1">>,
     <<"D","e","s","c","r","i","p","t","i","o","n",":"," ","d">>,
     <<"D","e","s","c","r","i","p","t","i","o","n",":"," ","V","e","r","s","i","o","n",":"," ","2"," ","x">>,
     <<"#","N","a","m","e",":"," ","c">>,
     <<"L","i","b","s",":"," ","-","l","m">>}

NotCalled ==
    /\ pc_files = <<>>
    /\ exists = {}
    /\ gcc = None
    /\ MULTIARCH_PATH = None
    /\ next_file = 1
    /\ result = "idle"
    /\ outdir = <<>>
    /\ log = <<>>
    /\ converted = <<>>
    /\ ret = None

InitParse ==
    /\ arg \in {Some(d) : d \in SeqsUpTo(PropertyLinePool, MaxLines)}
    /\ NotCalled

\* `PkgConfigFile::parse(&data)`
CallParse ==
    /\ ret = None
    /\ ret' \in {Some(r) : r \in parse(Unwrap(arg))}
    /\ UNCHANGED <<pc_files, exists, gcc, MULTIARCH_PATH, next_file, result, outdir,
                   log, converted, arg>>

NextParse == CallParse

SpecParse == InitParse /\ [][NextParse]_vars

(***************************************************************************)
(* expand_variables applied to documents drawn from a bounded set          *)
(***************************************************************************)

\* how many lines a document given to expand_variables holds at most
MaxVarLines == 4

Line_p == <<"p","=","/","u","s","r">>
Line_e == <<"e","=","$","{","p","}">>
Line_l == <<"l","=","$","{","e","}","/","l","i","b">>
Line_C == <<"C",":"," ","-","L","$","{","l","}"," ","-","I","$","{","l","}">>
Line_a == <<"a","=","$","{","b","}">>
Line_b == <<"b","=","$","{","a","}">>

Line_q == <<"q","=","$","{","p","}",",","x">>
Line_D == <<"D",":"," ","$","{","q","}">>

VariableLinePool == {Line_p, Line_e, Line_l, Line_C, Line_a, Line_b, Line_q, Line_D}

InitExpand ==
    /\ arg \in {Some(d) : d \in SeqsUpTo(VariableLinePool, MaxVarLines)}
    /\ NotCalled

\* `expand_variables(&data, 0)`
CallExpand ==
    /\ ret = None
    /\ ret' \in {Some(r) : r \in expand_variables(Unwrap(arg), 0)}
    /\ UNCHANGED <<pc_files, exists, gcc, MULTIARCH_PATH, next_file, result, outdir,
                   log, converted, arg>>

NextExpand == CallExpand

SpecExpand == InitExpand /\ [][NextExpand]_vars

(***************************************************************************)
(* Package::validate and Package::from_str applied to bounded documents    *)
(***************************************************************************)

\* how many components a package given to validate holds at most
MaxComponents == 1

ComponentNames == {<<"c", <<"1", "2", "3", "4">>[k]>> : k \in 1..MaxComponents}

\* the `type` tags: the six kinds, the unit variant and MaybeComponent::Other
ComponentTypes ==
    {"archive", "dylib", "module", "jar", "interface", "symbolic", "unknwon", "other"}

Lib64 == <<"/","l","i","b","6","4","/","l","i","b","s","a","m","p","l","e",".","a">>

\* a Configuration, of which validate reads the location alone
Configurations == {[location |-> l] : l \in {None, Some(Lib64)}}

ConfigurationMaps ==
    UNION {[names -> Configurations] : names \in SUBSET {<<"s","h","a","r","e","d">>, <<"s","t","a","t","i","c">>}}

SomeComponents ==
    {Component(t, [ComponentFields EXCEPT !.location = l, !.configurations = c])
     : t \in ComponentTypes,
       l \in {None, Some(Lib64)},
       c \in {None} \cup {Some(m) : m \in ConfigurationMaps}}

SomePackages ==
    {[name |-> <<"s","a","m","p","l","e">>,
      cps_version |-> v,
      version |-> None,
      description |-> None,
      default_components |-> None,
      components |-> c,
      configurations |-> None,
      requires |-> None]
     : v \in {CPS_VERSION, EmittedCpsVersion},
       c \in UNION {[names -> SomeComponents] : names \in SUBSET ComponentNames}}

InitValidate ==
    /\ arg \in {Some([wellformed |-> w, package |-> p]) : w \in BOOLEAN, p \in SomePackages}
    /\ NotCalled

\* `package.validate()` on a Package value
CallValidate ==
    /\ ret = None
    /\ Unwrap(arg).wellformed
    /\ ret' \in {Some([call |-> "validate", result |-> r])
                 : r \in validate(Unwrap(arg).package)}
    /\ UNCHANGED <<pc_files, exists, gcc, MULTIARCH_PATH, next_file, result, outdir,
                   log, converted, arg>>

\* `Package::from_str(data)` on a document
CallFromStr ==
    /\ ret = None
    /\ ret' \in {Some([call |-> "from_str", result |-> r]) : r \in from_str(Unwrap(arg))}
    /\ UNCHANGED <<pc_files, exists, gcc, MULTIARCH_PATH, next_file, result, outdir,
                   log, converted, arg>>

NextValidate == CallValidate \/ CallFromStr

SpecValidate == InitValidate /\ [][NextValidate]_vars

(***************************************************************************)
(* expand_variables call by call: every call of the recursion is a step.   *)
(* `ret` holds the frame of the innermost call: its index, the text it was *)
(* given, the number of substitution passes made so far, and the result    *)
(* once a call has returned one (every outer call returns it unchanged).   *)
(***************************************************************************)

\* how many lines a document expanded call by call holds at most
MaxPassLines == 3

\* x -> y -> z -> x is a cycle of three, x -> y -> x (with Line_w) a cycle of
\* two, and x -> y -> z with z=/u (Line_v) a chain that ends
Line_x == <<"x","=","$","{","y","}">>
Line_y == <<"y","=","$","{","z","}">>
Line_z == <<"z","=","$","{","x","}">>
Line_w == <<"y","=","$","{","x","}">>
Line_v == <<"z","=","/","u">>

PassLinePool == {Line_x, Line_y, Line_z, Line_w, Line_v}

InitPasses ==
    /\ arg \in {Some(d) : d \in SeqsUpTo(PassLinePool, MaxPassLines)}
    /\ NotCalled

\* `expand_variables(&data, 0)`: the outermost call is entered
EnterExpand ==
    /\ ret = None
    /\ ret' = Some([index |-> 0, data |-> Unwrap(arg), passes |-> 0, result |-> None])
    /\ UNCHANGED <<pc_files, exists, gcc, MULTIARCH_PATH, next_file, result, outdir,
                   log, converted, arg>>

InCall == ret # None /\ Unwrap(ret).result = None

\* `if index > 100 { return Err(..) }`
Overflow ==
    /\ InCall
    /\ LimitHit(Unwrap(ret).index)
    /\ ret' = Some([Unwrap(ret) EXCEPT !.result = Some(MaxRecursionError(Unwrap(ret).data))])
    /\ UNCHANGED <<pc_files, exists, gcc, MULTIARCH_PATH, next_file, result, outdir,
                   log, converted, arg>>

\* the substitution loop of one call, then `if data.contains("${")`: the call
\* recurses with index + 1 on the text it made, or returns it
Pass ==
    /\ InCall
    /\ ~LimitHit(Unwrap(ret).index)
    /\ \E d \in ExpandPass(Unwrap(ret).data, parse_variables(Unwrap(ret).data)) :
          ret' = Some(IF ContainsVarToken(d)
                      THEN [index |-> Unwrap(ret).index + 1, data |-> d,
                            passes |-> Unwrap(ret).passes + 1, result |-> None]
                      ELSE [index |-> Unwrap(ret).index, data |-> d,
                            passes |-> Unwrap(ret).passes + 1,
                            result |-> Some([ok |-> TRUE, data |-> d])])
    /\ UNCHANGED <<pc_files, exists, gcc, MULTIARCH_PATH, next_file, result, outdir,
                   log, converted, arg>>

NextPasses == EnterExpand \/ Overflow \/ Pass

SpecPasses == InitPasses /\ [][NextPasses]_vars

\* Weak fairness of NextPasses: a call that can take a step takes it, the
\* program runs on until it returns.  A step is enabled exactly as long as no
\* call has returned (EnterExpand before the outermost call, then Overflow or
\* Pass, since every text has a pass), so the enabling condition is written
\* out as that state predicate.
Returning == ret # None /\ Unwrap(ret).result # None

SpecPassesLive == SpecPasses /\ ([]<>Returning \/ []<><<NextPasses>>_vars)

(***************************************************************************)
(* find_library applied to search directories and filesystems drawn from   *)
(* bounded sets                                                            *)
(***************************************************************************)

\* how many search directories a call of find_library is given at most
MaxDirs == 2

Dir_l == <<"/","l">>
Dir_m == <<"/","m">>
Dir_arm == <<"/","u","s","r","/","l","i","b","/","a","r","m">>

\* the directories a call is given; the multiarch directory can be among them
SearchDirPool == {Dir_l, Dir_m, Dir_arm}

\* the artifacts of libfoo the filesystem may hold
FoundFilePool ==
    {Join(Dir_l, <<"l","i","b","f","o","o",".","s","o">>),
     Join(Dir_m, <<"l","i","b","f","o","o",".","s","o">>),
     Join(Dir_arm, <<"l","i","b","f","o","o",".","s","o">>),
     Join(Dir_m, <<"l","i","b","f","o","o",".","a">>)}

InitFind ==
    /\ pc_files = <<>>
    /\ exists \in SUBSET FoundFilePool
    /\ gcc \in {None, Some(Machine)}
    /\ MULTIARCH_PATH = None
    /\ next_file = 1
    /\ result = "idle"
    /\ outdir = <<>>
    /\ log = <<>>
    /\ converted = <<>>
    /\ arg \in {Some([library |-> LibFoo, extension |-> e, search_paths |-> d])
                : e \in {<<"s","o">>, <<"a">>}, d \in SeqsUpTo(SearchDirPool, MaxDirs)}
    /\ ret = None

\* `find_library(library, extension, &search_paths)`
CallFindLibrary ==
    /\ ret = None
    /\ ret' = Some(find_library(Unwrap(arg).library, Unwrap(arg).extension,
                                Unwrap(arg).search_paths, MultiarchDirs, exists))
    /\ MULTIARCH_PATH' = get_multiarch_lib_path_iter(MULTIARCH_PATH, gcc)
    /\ UNCHANGED <<pc_files, exists, gcc, next_file, result, outdir, log, converted, arg>>

NextFind == CallFindLibrary

SpecFind == InitFind /\ [][NextFind]_vars

(***************************************************************************)
(* Claims about the batch run (Spec)                                       *)
(***************************************************************************)

AllReadable == \A k \in 1..Len(pc_files) : pc_files[k].readable

\* C1: in batch conversion a parsing error on one .pc file is not fatal: the
\* file is skipped, every later file is still processed and the batch returns
\* Ok.  With every file readable, the run therefore never returns an error,
\* and it returns only after the loop has passed the last file.
C1_ParseErrorIsNotFatal ==
    AllReadable =>
        /\ result # "Err"
        /\ (result = "Ok" => next_file = Len(pc_files) + 1)

\* C2: every package the converter emits carries the cps_version that
\* Package::validate accepts, so validating an emitted package never yields
\* the unsupported-version error.
C2_EmittedVersionIsSupported ==
    \A f \in DOMAIN outdir :
        /\ outdir[f].cps_version = CPS_VERSION
        /\ \A r \in validate(outdir[f]) : r.ok \/ r.err # "UnsupportedVersion"

(***************************************************************************)
(* Claims about resolution and conversion (SpecConvert)                    *)
(***************************************************************************)

Extension_so == <<"s", "o">>
Extension_a == <<"a">>

\* lib<library>.<extension> exists in a search directory of the record or in
\* the multiarch directory
OnSearchPath(library, extension) ==
    LET paths == Candidates(library, extension, Unwrap(arg).link_locations,
                            MultiarchInit(gcc))
    IN  \E k \in 1..Len(paths) : paths[k] \in exists

\* the path find_library resolves lib<library>.<extension> to
ResolvedPath(library, extension) ==
    find_library(library, extension, Unwrap(arg).link_locations,
                 MultiarchInit(gcc), exists).value

HasPrimary == Unwrap(arg).link_libraries # <<>>
Primary == Unwrap(arg).link_libraries[1]

\* every secondary library has an artifact, so that only the primary decides
SecondariesExist ==
    \A k \in 2..Len(Unwrap(arg).link_libraries) :
        \/ OnSearchPath(Unwrap(arg).link_libraries[k], Extension_so)
        \/ OnSearchPath(Unwrap(arg).link_libraries[k], Extension_a)

Resolved == ret # None
Library == Unwrap(ret).library

\* resolution has failed, or the package has been built
Finished == Resolved /\ (~Library.ok \/ Unwrap(ret).cps # None)
Emitted == Resolved /\ Unwrap(ret).cps # None
Package == Unwrap(Unwrap(ret).cps)

\* C3: resolving the primary library succeeds whenever at least one of
\* lib<name>.so and lib<name>.a exists on the search path and reports exactly
\* the artifact kinds that exist; it fails only when neither exists.
C3_FindReportsWhatExists ==
    (Resolved /\ HasPrimary /\ SecondariesExist) =>
        /\ Library.ok <=>
              (OnSearchPath(Primary, Extension_so) \/ OnSearchPath(Primary, Extension_a))
        /\ Library.ok =>
              /\ Library.value.dylib_location # None <=>
                     OnSearchPath(Primary, Extension_so)
              /\ Library.value.archive_location # None <=>
                     OnSearchPath(Primary, Extension_a)

\* C4: when the primary library resolves to an archive only (a dylib only),
\* conversion emits a package whose default component is of kind Archive
\* (Dylib) with location set to the resolved path of the primary artifact.
C4_SingleArtifactDefault ==
    (Finished /\ HasPrimary /\ SecondariesExist
       /\ OnSearchPath(Primary, Extension_so) # OnSearchPath(Primary, Extension_a)) =>
        /\ Emitted
        /\ Package.default_components = Some(<<Primary>>)
        /\ Package.components[Primary].type =
              IF OnSearchPath(Primary, Extension_a) THEN "archive" ELSE "dylib"
        /\ Package.components[Primary].location =
              Some(ResolvedPath(Primary,
                     IF OnSearchPath(Primary, Extension_a) THEN Extension_a
                     ELSE Extension_so))

Shared == <<"s","h","a","r","e","d">>
Static == <<"s","t","a","t","i","c">>

\* C5: when the primary library resolves to both a shared object and a static
\* archive, the default component is an Interface with the configurations
\* "shared" and "static", each requiring a separately emitted `-shared` Dylib /
\* `-static` Archive component, and the package's configurations list is
\* ["shared", "static"].
C5_BothEmitsDispatchingInterface ==
    (Finished /\ HasPrimary /\ SecondariesExist
       /\ OnSearchPath(Primary, Extension_so) /\ OnSearchPath(Primary, Extension_a)) =>
        /\ Emitted
        /\ Package.components[Primary].type = "interface"
        /\ Package.configurations = Some(<<Shared, Static>>)
        /\ Package.components[Primary].configurations # None
        /\ LET configurations == Unwrap(Package.components[Primary].configurations)
               shared == Primary \o <<"-">> \o Shared
               static == Primary \o <<"-">> \o Static
           IN  /\ DOMAIN configurations = {Shared, Static}
               /\ configurations[Shared].requires = Some(<<<<":">> \o shared>>)
               /\ configurations[Static].requires = Some(<<<<":">> \o static>>)
               /\ {shared, static} \subseteq DOMAIN Package.components
               /\ Package.components[shared].type = "dylib"
               /\ Package.components[static].type = "archive"

(***************************************************************************)
(* Claims about PkgConfigFile::parse (SpecParse)                           *)
(***************************************************************************)

\* the lines of the document that are the property `name`: the lines, other
\* than comments, that begin with `name:`
PropertyLines(data, name) ==
    {k \in 1..Len(data) : StartsWith(data[k], name \o <<":">>)}

\* the value such a line gives the property: what follows the colon, trimmed
PropertyValue(line, name) == Trim(SubSeq(line, Len(name) + 2, Len(line)))

RequiredProperties == {P_Name, P_Version, P_Description}

Called == ret # None
Returned == Unwrap(ret)

\* C6: PkgConfigFile::parse fails with a missing-required-property error
\* whenever the text has no `Name:`, no `Version:` or no `Description:`
\* property; it never returns a record with one of the three defaulted.
C6_MissingRequiredPropertyFails ==
    (Called /\ \E name \in RequiredProperties : PropertyLines(Unwrap(arg), name) = {}) =>
        /\ ~Returned.ok
        /\ Returned.err = "MissingRequiredProperty"

\* a document that holds each of Name, Version and Description once, with a
\* value, and no variable reference
HasRequiredProperties(data) ==
    /\ ~ContainsVarToken(data)
    /\ \A name \in RequiredProperties :
          /\ Cardinality(PropertyLines(data, name)) = 1
          /\ \A k \in PropertyLines(data, name) :
                /\ StartsWith(data[k], name \o <<":", " ">>)
                /\ PropertyValue(data[k], name) # <<>>

\* the value of the one `name` line of such a document
RequiredValue(data, name) ==
    PropertyValue(data[CHOOSE k \in PropertyLines(data, name) : TRUE], name)

\* C9: for every valid document containing Name, Version and Description,
\* parse succeeds and the record's name, version and description equal the
\* values of those three property lines, trimmed of surrounding whitespace.
C9_RequiredPropertiesEchoed ==
    (Called /\ HasRequiredProperties(Unwrap(arg))) =>
        /\ Returned.ok
        /\ Returned.value.name = RequiredValue(Unwrap(arg), P_Name)
        /\ Returned.value.version = RequiredValue(Unwrap(arg), P_Version)
        /\ Returned.value.description = RequiredValue(Unwrap(arg), P_Description)

(***************************************************************************)
(* Claims about expand_variables (SpecExpand)                              *)
(***************************************************************************)

\* What chained references mean, told without the passes of the code: a line
\* `name=text` assigns text to name, and the meaning of name is its text with
\* every reference to an assigned name replaced by that name's meaning.
FirstEq(line) ==
    IF \E i \in 1..Len(line) : line[i] = "="
    THEN Min({i \in 1..Len(line) : line[i] = "="}) ELSE 0

IsAssignment(line) ==
    /\ FirstEq(line) > 1
    /\ \A i \in 1..(FirstEq(line) - 1) : line[i] \in NameClass

AssignedName(line) == SubSeq(line, 1, FirstEq(line) - 1)
AssignedText(line) == SubSeq(line, FirstEq(line) + 1, Len(line))

Assignments(data) == {k \in 1..Len(data) : IsAssignment(data[k])}
AssignedNames(data) == {AssignedName(data[k]) : k \in Assignments(data)}

AssignedOnce(data) ==
    \A k, m \in Assignments(data) :
        AssignedName(data[k]) = AssignedName(data[m]) => k = m

TextOf(data, name) ==
    AssignedText(data[CHOOSE k \in Assignments(data) : AssignedName(data[k]) = name])

RECURSIVE Substituted(_, _, _, _)
RECURSIVE Meaning(_, _, _)

\* text with every reference to a name of `names` replaced by its meaning
Substituted(text, names, data, depth) ==
    IF names = {} THEN text
    ELSE LET n == CHOOSE x \in names : TRUE
         IN  Substituted(Replace(text, VarToken(n), Meaning(data, n, depth)),
                         names \ {n}, data, depth)

Meaning(data, name, depth) ==
    IF depth = 0 THEN TextOf(data, name)
    ELSE Substituted(TextOf(data, name), AssignedNames(data), data, depth - 1)

\* the document with every reference replaced by the meaning of its name
FullyExpanded(data) ==
    [k \in 1..Len(data) |->
        Substituted(data[k], AssignedNames(data), data, Len(data))]

Referenced(data, name) == \E k \in 1..Len(data) : Contains(data[k], VarToken(name))

\* every name is assigned once, every reference is to an assigned name, no
\* assignment refers back to itself, and the meaning of every referenced name
\* is a value the variable pattern accepts
WellDefined(data) ==
    /\ AssignedOnce(data)
    /\ ~ContainsVarToken(FullyExpanded(data))
    /\ \A n \in AssignedNames(data) :
          Referenced(data, n) =>
              \A i \in 1..Len(Meaning(data, n, Len(data))) :
                  Meaning(data, n, Len(data))[i] \in ValueClass

Document == Unwrap(arg)

\* a component that has a location: its own, or one on every configuration of
\* a configurations map that holds at least one
LocationSupplied(component) ==
    \/ component.location # None
    \/ /\ component.configurations # None
       /\ DOMAIN Unwrap(component.configurations) # {}
       /\ \A c \in DOMAIN Unwrap(component.configurations) :
              Unwrap(component.configurations)[c].location # None

LacksLocation(package) ==
    \E n \in DOMAIN package.components :
        /\ package.components[n].type \in {"archive", "dylib", "module", "jar"}
        /\ ~LocationSupplied(package.components[n])

\* C7: Package::validate rejects, for a missing location, any package with an
\* Archive, Dylib, Module or Jar component that has no location of its own and
\* no configuration supplying one (its configurations absent, empty, or one of
\* them without a location); it accepts such a component when every one of
\* its configurations has a location.
C7_LocationRequired ==
    (Called /\ Returned.call = "validate"
       /\ Document.package.cps_version = CPS_VERSION) =>
        IF LacksLocation(Document.package)
        THEN ~Returned.result.ok /\ Returned.result.err = "MissingLocation"
        ELSE Returned.result.ok

\* C8: Package::validate, and with it Package::from_str, rejects every
\* document whose cps_version differs from the supported version, whatever
\* its components are.
C8_ForeignVersionRejected ==
    (Called /\ Document.package.cps_version # CPS_VERSION) =>
        /\ ~Returned.result.ok
        /\ Returned.call = "validate" => Returned.result.err = "UnsupportedVersion"
        /\ Document.wellformed => Returned.result.err = "UnsupportedVersion"

\* a document of a foreign version whose one component is valid is refused
C8_Witness ==
    /\ Called
    /\ Returned.call = "from_str"
    /\ Document.wellformed
    /\ Document.package.cps_version # CPS_VERSION
    /\ DOMAIN Document.package.components # {}
    /\ ~LacksLocation(Document.package)
    /\ \E n \in DOMAIN Document.package.components :
          Document.package.components[n].type = "archive"
    /\ Returned.result = [ok |-> FALSE, err |-> "UnsupportedVersion"]

(***************************************************************************)
(* Claims about the calls of expand_variables (SpecPasses, SpecPassesLive) *)
(***************************************************************************)

\* every assignment of the name n refers to the name m
RefersTo(data, n, m) ==
    \A k \in Assignments(data) :
        AssignedName(data[k]) = n => Contains(AssignedText(data[k]), VarToken(m))

\* the names reached from the names of S along at most k references
RECURSIVE ReachedFrom(_, _, _)
ReachedFrom(data, S, k) ==
    IF k = 0 THEN S
    ELSE ReachedFrom(data,
                     S \cup {m \in AssignedNames(data) : \E n \in S : RefersTo(data, n, m)},
                     k - 1)

\* some name is defined, in each of its assignments, through a name that is
\* in turn defined through it, directly or along further names
CyclicDefinition(data) ==
    \E n, m \in AssignedNames(data) :
        /\ RefersTo(data, n, m)
        /\ n \in ReachedFrom(data, {m}, Len(data))

Frame == Unwrap(ret)
Entered == ret # None
Outcome == Unwrap(Frame.result)
HasReturned == Entered /\ Frame.result # None
Overflowed == HasReturned /\ ~Outcome.ok /\ Outcome.err = "MaxRecursion"

\* C11: variable expansion of a document with a cyclic definition (a=${b},
\* b=${a}, or a longer cycle) always terminates, and terminates with the
\* max-recursion error rather than with a result.
C11_CyclicExpansionOverflows == CyclicDefinition(Unwrap(arg)) ~> Overflowed

\* the cycle x -> y -> z -> x has run into the error
C11_Witness ==
    /\ Unwrap(arg) = <<Line_x, Line_y, Line_z>>
    /\ CyclicDefinition(Unwrap(arg))
    /\ Overflowed
    /\ Outcome.data = Unwrap(arg)

\* C19, as the code has it: expand_variables never makes more than 101
\* substitution passes (the calls with index 0 to 100), it fails exactly when
\* the text still holds `${` after the 101st pass, and a text it returns
\* holds none.
C19_CappedAt101Passes ==
    Entered =>
        /\ Frame.passes <= MaxRecursion + 1
        /\ HasReturned =>
              IF Outcome.ok
              THEN ~ContainsVarToken(Outcome.data)
              ELSE /\ Overflowed
                   /\ Frame.passes = MaxRecursion + 1
                   /\ ContainsVarToken(Outcome.data)

\* C19, as stated: expand_variables never makes more than 100 substitution
\* passes, and a document that still holds `${` after the 100th pass fails.
C19_CappedAt100Passes ==
    Entered =>
        /\ Frame.passes <= MaxRecursion
        /\ (HasReturned /\ ~Outcome.ok) => Frame.passes = MaxRecursion

\* the cycle x -> y -> x fails after the pass of the call with index 100
C19_Witness ==
    /\ Unwrap(arg) = <<Line_x, Line_w>>
    /\ Overflowed
    /\ Frame.index = MaxRecursion + 1
    /\ Frame.passes = MaxRecursion + 1

(***************************************************************************)
(* Further claims about expand_variables (SpecExpand)                      *)
(***************************************************************************)

\* C18: variable expansion is idempotent on expanded text: expand_variables
\* applied to a text without `${` returns Ok with exactly that text, so
\* expanding the text of a successful expansion again returns it unchanged.
C18_ExpansionIdempotent ==
    Called =>
        /\ ~ContainsVarToken(Unwrap(arg)) =>
              Returned = [ok |-> TRUE, data |-> Unwrap(arg)]
        /\ Returned.ok =>
              /\ ~ContainsVarToken(Returned.data)
              /\ expand_variables(Returned.data, 0) = {Returned}

\* a text with references was expanded, and expanding the result again
\* gives the result
C18_Witness ==
    /\ Called
    /\ Unwrap(arg) = <<Line_p, Line_e, Line_l, Line_C>>
    /\ Returned.ok
    /\ Returned.data # Unwrap(arg)
    /\ expand_variables(Returned.data, 0) = {Returned}

(***************************************************************************)
(* Further claims about resolution and conversion (SpecConvert)            *)
(***************************************************************************)

Record == Unwrap(arg)

\* a flag list as a component carries it: absent when empty, else for every
\* language
Carried(list) == IF list = <<>> THEN None ELSE Some([lang \in {"*"} |-> list])

\* the names of the Requires entries, in order
RequiredNames == [k \in 1..Len(Record.requires) |-> Record.requires[k].name]

\* C12: a record without any -l library is converted into exactly one
\* component: an Interface without location, named after the package, that
\* carries the includes, definitions, compile flags and link flags, and whose
\* requires holds the cross-package names of Requires only.
C12_NoLibraryEmitsInterface ==
    (Finished /\ ~HasPrimary) =>
        /\ Emitted
        /\ DOMAIN Package.components = {Record.name}
        /\ LET component == Package.components[Record.name]
           IN  /\ component.type = "interface"
               /\ component.location = None
               /\ component.includes = Carried(Record.includes)
               /\ component.definitions = Carried(Record.definitions)
               /\ component.compile_flags = Carried(Record.compile_flags)
               /\ component.link_flags =
                      IF Record.link_flags = <<>> THEN None ELSE Some(Record.link_flags)
               /\ component.requires = Some(RequiredNames)
               /\ \A k \in 1..Len(Unwrap(component.requires)) :
                      ~StartsWith(Unwrap(component.requires)[k], <<":">>)

\* a record with flags and Requires but no library has been converted
C12_Witness ==
    /\ Emitted
    /\ ~HasPrimary
    /\ Record.link_flags # <<>>
    /\ Record.includes # <<>>
    /\ Record.requires # <<>>
    /\ Package.components[Record.name].type = "interface"

\* C13: every emitted package has a default_components list of length one
\* whose entry is a key of the components map; with exactly one -l entry that
\* entry is the single component of the package.
C13_OneDefaultComponent ==
    Emitted =>
        /\ Package.default_components # None
        /\ Len(Unwrap(Package.default_components)) = 1
        /\ Unwrap(Package.default_components)[1] \in DOMAIN Package.components
        /\ Len(Record.link_libraries) = 1 =>
              DOMAIN Package.components = {Unwrap(Package.default_components)[1]}

\* a record with one -l entry has been converted into its one component
C13_Witness ==
    /\ Emitted
    /\ Len(Record.link_libraries) = 1
    /\ Package.default_components = Some(<<Primary>>)
    /\ DOMAIN Package.components = {Primary}

\* C17: every Requires entry with a version has an entry under its name in
\* the package-level requires mapping, carrying that version; an entry without
\* a version appears in the component-level requires list only.
C17_VersionedRequiresAtPackageLevel ==
    Emitted =>
        \A k \in 1..Len(Record.requires) :
            LET d == Record.requires[k]
                listed == \E c \in DOMAIN Package.components :
                             /\ Package.components[c].requires # None
                             /\ \E j \in 1..Len(Unwrap(Package.components[c].requires)) :
                                   Unwrap(Package.components[c].requires)[j] = d.name
            IN  IF d.version # None
                THEN /\ Package.requires # None
                     /\ d.name \in DOMAIN Unwrap(Package.requires)
                     /\ Unwrap(Package.requires)[d.name].version = d.version
                ELSE /\ listed
                     /\ Package.requires # None => d.name \notin DOMAIN Unwrap(Package.requires)

(***************************************************************************)
(* PkgConfigFile::parse applied to documents with a Libs line made of      *)
(* tokens drawn from a bounded set                                         *)
(***************************************************************************)

\* how many tokens a Libs line holds at most
MaxTokens == 3

LibsTokenPool ==
    {<<"-","L","/","l">>,
     <<"-","l","f","o","o">>,
     <<"-","l","b","a","r">>,
     <<"-","l">>,
     <<"-","p","t","h","r","e","a","d">>,
     <<"-","W","l",",","-","z">>}

\* the whitespace between two tokens
TokenGaps == {<<" ">>, <<" ", " ">>, <<"\t">>}

RECURSIVE JoinTokens(_, _)
JoinTokens(tokens, gap) ==
    IF tokens = <<>> THEN <<>>
    ELSE IF Len(tokens) = 1 THEN tokens[1]
    ELSE tokens[1] \o gap \o JoinTokens(Tail(tokens), gap)

\* a document whose Libs property is the line of these tokens
LibsDocument(tokens, gap) ==
    <<P_Name \o <<":", " ", "n">>,
      P_Libs \o <<":", " ">> \o JoinTokens(tokens, gap)>>

InitLibs ==
    /\ arg \in {Some([tokens |-> t, data |-> LibsDocument(t, g)])
                : t \in SeqsUpTo(LibsTokenPool, MaxTokens), g \in TokenGaps}
    /\ NotCalled

\* `PkgConfigFile::parse(&data)` on the document
CallParseLibs ==
    /\ ret = None
    /\ ret' \in {Some(r) : r \in parse(Unwrap(arg).data)}
    /\ UNCHANGED <<pc_files, exists, gcc, MULTIARCH_PATH, next_file, result, outdir,
                   log, converted, arg>>

NextLibs == CallParseLibs

SpecLibs == InitLibs /\ [][NextLibs]_vars

(***************************************************************************)
(* Claims about the Libs tokens (SpecLibs)                                 *)
(***************************************************************************)

\* the tokens that begin with the prefix, in order, without it
RECURSIVE WithPrefix(_, _)
WithPrefix(tokens, prefix) ==
    IF tokens = <<>> THEN <<>>
    ELSE IF StartsWith(Head(tokens), prefix)
         THEN <<SubSeq(Head(tokens), Len(prefix) + 1, Len(Head(tokens)))>>
              \o WithPrefix(Tail(tokens), prefix)
         ELSE WithPrefix(Tail(tokens), prefix)

\* the tokens that begin with neither -l nor -L, in order
RECURSIVE OtherTokens(_)
OtherTokens(tokens) ==
    IF tokens = <<>> THEN <<>>
    ELSE IF StartsWith(Head(tokens), <<"-", "l">>) \/ StartsWith(Head(tokens), <<"-", "L">>)
         THEN OtherTokens(Tail(tokens))
         ELSE <<Head(tokens)>> \o OtherTokens(Tail(tokens))

\* C14: link_libraries is exactly the sequence of the -l tokens of Libs
\* without the prefix, in their order and with duplicates; link_locations is
\* the sequence of its -L tokens without the prefix; every other token, and
\* no other, appears in link_flags.
C14_LibsTokensClassified ==
    Called =>
        /\ Returned.ok
        /\ Returned.value.link_libraries = WithPrefix(Unwrap(arg).tokens, <<"-", "l">>)
        /\ Returned.value.link_locations = WithPrefix(Unwrap(arg).tokens, <<"-", "L">>)
        /\ Returned.value.link_flags = OtherTokens(Unwrap(arg).tokens)

\* a library named twice, around a flag that is neither -l nor -L
C14_Witness ==
    /\ Called
    /\ Unwrap(arg).tokens = <<<<"-","l","f","o","o">>, <<"-","p","t","h","r","e","a","d">>,
                              <<"-","l","f","o","o">>>>
    /\ Returned.value.link_libraries = <<<<"f","o","o">>, <<"f","o","o">>>>
    /\ Returned.value.link_flags = <<<<"-","p","t","h","r","e","a","d">>>>

(***************************************************************************)
(* Dependency::parse_list applied to lists made of entries drawn from a    *)
(* bounded set                                                             *)
(***************************************************************************)

\* how many entries a dependency list holds at most
MaxDeps == 2

\* the spaces written before and after an operator
SpacesAround == {<<>>, <<" ">>, <<" ", " ">>}

\* an entry: a bare name, `name op version` with spaces around the operator,
\* or a name followed by an operator that has no version
DependencyEntries ==
    {[name |-> n, op |-> None, version |-> None, before |-> <<>>, after |-> <<>>]
     : n \in {<<"a">>, <<"g","t","k","+","-","3",".","0">>}}
    \cup
    {[name |-> n, op |-> Some(o[1]), version |-> Some(o[2]), before |-> b, after |-> a]
     : n \in {<<"a">>, <<"g","t","k","+","-","3",".","0">>},
       o \in {<<<<">", "=">>, <<"1", ".", "2">>>>, <<<<"=">>, <<"3">>>>},
       b \in SpacesAround,
       a \in SpacesAround}
    \cup
    {[name |-> <<"a">>, op |-> Some(<<">", "=">>), version |-> None,
      before |-> <<" ">>, after |-> <<>>]}

\* what separates two entries
EntrySeparators == {<<" ">>, <<",">>, <<",", " ">>}

\* the text of one entry
EntryText(e) ==
    IF e.op = None THEN e.name
    ELSE IF e.version = None THEN e.name \o e.before \o Unwrap(e.op)
    ELSE e.name \o e.before \o Unwrap(e.op) \o e.after \o Unwrap(e.version)

RECURSIVE ListText(_, _)
ListText(entries, separator) ==
    IF entries = <<>> THEN <<>>
    ELSE IF Len(entries) = 1 THEN EntryText(entries[1])
    ELSE EntryText(entries[1]) \o separator \o ListText(Tail(entries), separator)

InitDeps ==
    /\ arg \in {Some([entries |-> e, data |-> ListText(e, s)])
                : e \in SeqsUpTo(DependencyEntries, MaxDeps), s \in EntrySeparators}
    /\ NotCalled

\* `Dependency::parse_list(&requires)`
CallParseList ==
    /\ ret = None
    /\ ret' = Some(parse_list(Unwrap(arg).data))
    /\ UNCHANGED <<pc_files, exists, gcc, MULTIARCH_PATH, next_file, result, outdir,
                   log, converted, arg>>

NextDeps == CallParseList

SpecDeps == InitDeps /\ [][NextDeps]_vars

(***************************************************************************)
(* Claims about Dependency::parse_list (SpecDeps)                          *)
(***************************************************************************)

\* the entry is a bare name or has both an operator and a version
Complete(e) == (e.op = None) = (e.version = None)

\* the Dependency an entry stands for
DependencyOf(e) == [name |-> e.name, op |-> e.op, version |-> e.version]

\* C15: parse_list yields exactly one Dependency per entry of a space- and/or
\* comma-separated list, in input order: a bare name gets no operator and no
\* version, `name op version` with any number of spaces around the operator
\* gets that operator and version, and the empty string yields the empty
\* sequence.
C15_OneDependencyPerEntry ==
    (Called /\ \A k \in 1..Len(Unwrap(arg).entries) : Complete(Unwrap(arg).entries[k])) =>
        Returned = [k \in 1..Len(Unwrap(arg).entries) |->
                       DependencyOf(Unwrap(arg).entries[k])]

(***************************************************************************)
(* Further claims about the batch run (Spec)                               *)
(***************************************************************************)

\* the name with its trailing ".pc" replaced by ".cps"
ExtensionReplaced(file_name) ==
    SubSeq(file_name, 1, Len(file_name) - 3) \o <<".", "c", "p", "s">>

\* C16: the output file written for a .pc file is named by replacing only
\* the trailing `.pc` of its name with `.cps`, also when `.pc` occurs
\* elsewhere in the name.
C16_OnlyExtensionReplaced ==
    DOMAIN outdir =
        {ExtensionReplaced(pc_files[converted[k]].file_name) : k \in 1..Len(converted)}

\* the positions of the files whose library resolution failed
FailedFiles == {log[k].file : k \in 1..Len(log)}
ConvertedFiles == {converted[k] : k \in 1..Len(converted)}

Increasing(positions) ==
    \A j, k \in 1..Len(positions) : j < k => positions[j] < positions[k]

Secondaries == {Record.link_libraries[k] : k \in 2..Len(Record.link_libraries)}

\* the artifact a secondary library is to resolve to: its .so ahead of its .a
\* when the primary has a .so, its .a ahead of its .so when the primary has
\* an .a only
PreferredPath(name) ==
    IF OnSearchPath(Primary, Extension_so)
    THEN IF OnSearchPath(name, Extension_so) THEN ResolvedPath(name, Extension_so)
         ELSE ResolvedPath(name, Extension_a)
    ELSE IF OnSearchPath(name, Extension_a) THEN ResolvedPath(name, Extension_a)
         ELSE ResolvedPath(name, Extension_so)

\* C21: for a primary library that exists as a dylib, every secondary library
\* resolves to its .so when that exists and otherwise to its .a; for a primary
\* that exists as an archive and not as a dylib, every secondary resolves to
\* its .a when that exists and otherwise to its .so; when a secondary has
\* neither artifact, resolution of the whole package fails.
C21_SecondaryFollowsPrimary ==
    (Resolved /\ Secondaries # {}
       /\ (OnSearchPath(Primary, Extension_so) \/ OnSearchPath(Primary, Extension_a))) =>
        IF SecondariesExist
        THEN /\ Library.ok
             /\ DOMAIN Library.value.link_libraries = Secondaries
             /\ \A n \in Secondaries :
                   Library.value.link_libraries[n] = PreferredPath(n)
        ELSE ~Library.ok

(***************************************************************************)
(* Claims about find_library (SpecFind)                                    *)
(***************************************************************************)

\* lib<name>.<ext> of the call
FileName == <<"l","i","b">> \o Unwrap(arg).library \o <<".">> \o Unwrap(arg).extension

\* the positions of the search directories that contain the file
Holding ==
    {k \in 1..Len(Unwrap(arg).search_paths) :
        Join(Unwrap(arg).search_paths[k], FileName) \in exists}

\* the file in the multiarch directory, when the compiler names one
InMultiarch ==
    IF gcc = None THEN {}
    ELSE {Join(<<"/","u","s","r","/","l","i","b","/">> \o Trim(Unwrap(gcc)), FileName)}

\* C22: find_library returns the candidate lib<name>.<ext> in the earliest
\* directory, in the order the search directories were given, that contains
\* the file; the candidate of the multiarch directory is returned only when
\* no search directory of the caller contains the file.
C22_EarliestDirectoryWins ==
    Called =>
        IF Holding # {}
        THEN Returned = [ok |-> TRUE,
                         value |-> Join(Unwrap(arg).search_paths[Min(Holding)], FileName)]
        ELSE IF InMultiarch \cap exists # {}
        THEN Returned.ok /\ Returned.value \in InMultiarch
        ELSE ~Returned.ok

\* the file is in both search directories and in the multiarch directory:
\* the directory given first is the one returned
C22_Witness ==
    /\ Called
    /\ Unwrap(arg).search_paths = <<Dir_m, Dir_l>>
    /\ Unwrap(arg).extension = Extension_so
    /\ gcc # None
    /\ Holding = {1, 2}
    /\ InMultiarch \subseteq exists
    /\ Returned.ok
    /\ Returned.value = Join(Dir_m, FileName)

(***************************************************************************)
(* Claims about the requires list of the default component (SpecConvert)   *)
(***************************************************************************)

\* the component stored under the name default_components gives
DefaultComponent == Package.components[Unwrap(Package.default_components)[1]]

\* `:name`
LocalReference(name) == <<":">> \o name

\* C23: the requires list of the default Archive/Dylib component is exactly
\* one local reference `:name` for every secondary component, each secondary
\* once, followed by the names of the remote Requires dependencies in their
\* document order; every local reference precedes every remote name.
C23_LocalThenRemoteRequires ==
    (Emitted /\ HasPrimary) =>
        /\ DefaultComponent.type \in {"archive", "dylib"}
        /\ DefaultComponent.requires # None
        /\ \E order \in Orderings(Secondaries) :
              Unwrap(DefaultComponent.requires) =
                  [k \in 1..Len(order) |-> LocalReference(order[k])] \o RequiredNames

(***************************************************************************)
(* Claims about the error of resolution (SpecConvert)                      *)
(***************************************************************************)

\* the directories searched for the libraries of the record
SearchedDirs ==
    {Record.link_locations[k] : k \in 1..Len(Record.link_locations)}
    \cup {MultiarchInit(gcc)[k] : k \in 1..Len(MultiarchInit(gcc))}

\* the .so and the .a candidate of a library in every searched directory
AttemptedPaths(library) ==
    {Join(d, <<"l","i","b">> \o library \o <<".">> \o e)
     : d \in SearchedDirs, e \in {Extension_so, Extension_a}}

\* the paths an error of resolution names
NamedPaths(error) == {error.paths[k] : k \in 1..Len(error.paths)}

\* C24: when no artifact is found for a required library, primary or
\* secondary, the error of resolution names every attempted path: the .so
\* candidate and the .a candidate in every search directory and in the
\* multiarch directory.
C24_ErrorNamesEveryPath ==
    (Resolved /\ ~Library.ok) =>
        AttemptedPaths(Library.library) \subseteq NamedPaths(Library)

(***************************************************************************)
(* Further claims about Dependency::parse_list (SpecDeps)                  *)
(***************************************************************************)

\* C25: in every Dependency parse_list produces, the operator is present if
\* and only if the version is present: an operator that is not followed by a
\* version token is never attached to the preceding name.
C25_OperatorOnlyWithVersion ==
    Called =>
        \A k \in 1..Len(Returned) :
            (Returned[k].op # None) <=> (Returned[k].version # None)

(***************************************************************************)
(* Further claims about the batch run (Spec)                               *)
(***************************************************************************)

\* no two files of the enumeration have the same name in the same tree
DistinctInputs ==
    \A j, k \in 1..Len(pc_files) :
        j # k => <<pc_files[j].dir, pc_files[j].file_name>> #
                    <<pc_files[k].dir, pc_files[k].file_name>>

\* C26: a batch run produces one .cps file per converted .pc file: two
\* distinct .pc inputs that are both converted never write to the same output
\* path, so the number of written .cps files equals the number of converted
\* inputs.
C26_OneOutputPerConvertedFile ==
    DistinctInputs =>
        /\ Cardinality(DOMAIN outdir) = Len(converted)
        /\ \A j, k \in ConvertedFiles :
              j # k => cps_filename(pc_files[j].file_name) #
                          cps_filename(pc_files[k].file_name)

(***************************************************************************)
(* Claims about the components map (SpecConvert)                           *)
(***************************************************************************)

\* the name the default component is stored under
DefaultName == Unwrap(Package.default_components)[1]

\* the entries of the default component's requires list that are local
\* references
LocalReferences ==
    LET IsLocal(entry) == StartsWith(entry, <<":">>)
    IN  IF DefaultComponent.requires = None THEN <<>>
        ELSE SelectSeq(Unwrap(DefaultComponent.requires), IsLocal)

\* C27: in every emitted package, each local reference `:name` of the default
\* component's requires list names a key of the package's components map, and
\* every component other than the default one is referenced by exactly one
\* such local reference.
C27_LocalReferencesResolve ==
    Emitted =>
        /\ \A k \in 1..Len(LocalReferences) :
              Tail(LocalReferences[k]) \in DOMAIN Package.components
        /\ \A n \in DOMAIN Package.components \ {DefaultName} :
              Cardinality({k \in 1..Len(LocalReferences) :
                              LocalReferences[k] = LocalReference(n)}) = 1

\* C28: for any list of -l entries, also one in which a later entry repeats
\* the name of the primary library, the component stored under the default
\* component name is the one that carries the requires list, the includes,
\* the definitions, the compile flags and the link flags of the package:
\* inserting the secondary components never overwrites it.
C28_DefaultComponentKept ==
    Emitted =>
        /\ DefaultComponent.requires # None
        /\ SelectSeq(Unwrap(DefaultComponent.requires),
                     LAMBDA entry : ~StartsWith(entry, <<":">>)) = RequiredNames
        /\ DefaultComponent.includes = Carried(Record.includes)
        /\ DefaultComponent.definitions = Carried(Record.definitions)
        /\ DefaultComponent.compile_flags = Carried(Record.compile_flags)
        /\ DefaultComponent.link_flags =
              IF Record.link_flags = <<>> THEN None ELSE Some(Record.link_flags)

(***************************************************************************)
(* Claims about the successful results of resolution (SpecConvert)         *)
(***************************************************************************)

\* C29: in every successful result of FullLibraryPaths::find, dylib_location
\* and archive_location are both present or both absent, and both are absent
\* exactly when the record has no -l entry; hence the archive-only branch of
\* the conversion is never taken, and no secondary library is resolved
\* archive first.
C29_LocationsTogether ==
    (Resolved /\ Library.ok) =>
        /\ (Library.value.dylib_location = None) = (Library.value.archive_location = None)
        /\ (Library.value.dylib_location = None) = ~HasPrimary
        /\ \A n \in Secondaries :
              OnSearchPath(n, Extension_so) =>
                  Library.value.link_libraries[n] = ResolvedPath(n, Extension_so)
        /\ Emitted =>
              DefaultComponent.type = IF HasPrimary THEN "dylib" ELSE "interface"

\* a record whose secondary library has both artifacts was resolved and
\* converted: both locations of the primary are present, the secondary is
\* resolved to its .so and the default component is a Dylib
C29_Witness ==
    /\ Emitted
    /\ Record.link_libraries = <<LibFoo, LibBar>>
    /\ OnSearchPath(LibBar, Extension_so)
    /\ OnSearchPath(LibBar, Extension_a)
    /\ Library.value.dylib_location = Some(ResolvedPath(LibFoo, Extension_so))
    /\ Library.value.archive_location = Some(ResolvedPath(LibFoo, Extension_a))
    /\ Library.value.link_libraries[LibBar] = ResolvedPath(LibBar, Extension_so)
    /\ Package.components[LibFoo].type = "dylib"

(***************************************************************************)
(* Claims about undefined references (SpecPassesLive)                      *)
(***************************************************************************)

\* some line holds a reference `${name}` to a name no line assigns
UndefinedReference(data) ==
    \E k \in 1..Len(data) :
        \E i \in 1..Len(data[k]) :
            LET n == RunLen(data[k], i + 2, NameClass)
            IN  /\ StartsWithAt(data[k], i, <<"$", "{">>)
                /\ n >= 1
                /\ i + 2 + n <= Len(data[k])
                /\ data[k][i + 2 + n] = "}"
                /\ SubSeq(data[k], i + 2, i + 1 + n) \notin AssignedNames(data)

\* no line of the text holds `${`
FreeOfReferences(data) ==
    \A k \in 1..Len(data) :
        \A i \in 1..Len(data[k]) : ~StartsWithAt(data[k], i, <<"$", "{">>)

\* C30: whenever expand_variables returns Ok, the returned text contains no
\* `${`; a document that references a variable no line assigns is never
\* expanded successfully: its expansion ends, and ends with the max-recursion
\* error.
C30_UndefinedReferenceOverflows ==
    /\ [](HasReturned /\ Outcome.ok => FreeOfReferences(Outcome.data))
    /\ [](HasReturned /\ UndefinedReference(Unwrap(arg)) => ~Outcome.ok)
    /\ (UndefinedReference(Unwrap(arg)) ~> Overflowed)

\* x=${y} beside z=/u: y is assigned nowhere, the 101 passes change nothing
\* and the call with index 101 returns the error
C30_Witness ==
    /\ Unwrap(arg) = <<Line_v, Line_x>>
    /\ UndefinedReference(Unwrap(arg))
    /\ Overflowed
    /\ Frame.passes = MaxRecursion + 1
    /\ Outcome.data = Unwrap(arg)

====
